---- MODULE Spec2Model ----
(***************************************************************************)
(* Model of src/modules/llms/openai/OpenAISourceSetup.tsx (big-AGI):       *)
(*   - openAIModelToDLLM, the pure mapping of a remote model descriptor to *)
(*     a DLLM record through the ordered knownBases table;                 *)
(*   - the OpenAISourceSetup component: the source setup fields, the       *)
(*     listModels query it drives, and the registration of the fetched     *)
(*     models.                                                             *)
(* JavaScript strings that the code takes apart (model ids, source ids,    *)
(* labels) are sequences of one-character strings; strings the code only   *)
(* passes along or compares (keys, descriptions) are TLA+ strings.         *)
(***************************************************************************)
EXTENDS Integers, Sequences, FiniteSets

VARIABLES
    hasServerKeyOpenAI, \* openai.client: whether the deployment has a server-side key
    setup,              \* source.setup after normalizeSetup: oaiKey, oaiHost, oaiOrg, heliKey
    source,             \* the DModelSource of props.sourceId, or Null once it is removed
    llms,               \* useModelsStore: the registered DLLM records
    mounted,            \* whether the component is rendered (its query observer subscribed)
    queries,            \* the listModels query cache, one entry per query input
    delivered,          \* the models last handed to onSuccess (Null: never called)
    addArg,             \* the argument of the last addLLMs call (Null: never called)
    inputs,             \* normalizer runs: the (model, source) pairs still to map
    outputs             \* normalizer runs: the DLLM records produced so far

vars == <<hasServerKeyOpenAI, setup, source, llms, mounted, queries, delivered, addArg,
          inputs, outputs>>

formVars == <<hasServerKeyOpenAI, setup, source, llms, mounted, queries, delivered, addArg>>

normVars == <<inputs, outputs>>

-----------------------------------------------------------------------------
(* Bounds of the model *)

\* longest tail appended to a stem to build a raw model id
MaxTail == 2

\* cap on the requests of one query input that are on the wire at once
MaxInFlight == 2

-----------------------------------------------------------------------------
(* JavaScript string primitives used by openAIModelToDLLM *)

Undefined == [undefined |-> TRUE]

Null == [null |-> TRUE]

\* the white space String.prototype.trim removes (the part the alphabet has)
WhiteSpace == {" ", "\t"}

\* s.startsWith(p)
startsWith(s, p) == Len(p) <= Len(s) /\ SubSeq(s, 1, Len(p)) = p

\* s.slice(n), n >= 0
slice(s, n) == IF n >= Len(s) THEN <<>> ELSE SubSeq(s, n + 1, Len(s))

RECURSIVE trimStart(_)
trimStart(s) ==
    IF s = <<>> THEN <<>>
    ELSE IF Head(s) \in WhiteSpace THEN trimStart(Tail(s)) ELSE s

RECURSIVE trimEnd(_)
trimEnd(s) ==
    IF s = <<>> THEN <<>>
    ELSE IF s[Len(s)] \in WhiteSpace THEN trimEnd(SubSeq(s, 1, Len(s) - 1)) ELSE s

\* a trim that removes nothing
trim_none(s) == s

\* s.trim()
trim(s) == trimEnd(trimStart(s))

\* s.replace(pat, rep): the first occurrence only
RECURSIVE replaceAll_firstOnly(_, _, _)
replaceAll_firstOnly(s, pat, rep) ==
    IF s = <<>> THEN <<>>
    ELSE IF Head(s) = pat THEN rep \o Tail(s)
    ELSE <<Head(s)>> \o replaceAll_firstOnly(Tail(s), pat, rep)

\* s.replaceAll(pat, rep) for a one-character pattern
RECURSIVE replaceAll(_, _, _)
replaceAll(s, pat, rep) ==
    IF s = <<>> THEN <<>>
    ELSE (IF Head(s) = pat THEN rep ELSE <<Head(s)>>) \o replaceAll(Tail(s), pat, rep)

\* Math.ceil(n / d)
MathRoundDiv_ceil(n, d) == (n + d - 1) \div d

\* Math.round(n / d) for integers n >= 0, d > 0: floor(n/d + 0.5)
MathRoundDiv(n, d) == (2 * n + d) \div (2 * d)

-----------------------------------------------------------------------------
(* knownBases and openAIModelToDLLM *)

\* the table with 'gpt-4' listed before 'gpt-4-32k'
knownBases_gpt4First == <<
    [id |-> <<"g","p","t","-","4">>,
     label |-> <<"G","P","T","-","4">>,
     context |-> 8192,
     description |-> "Insightful, big thinker, slower, pricey"],
    [id |-> <<"g","p","t","-","4","-","3","2","k">>,
     label |-> <<"G","P","T","-","4","-","3","2">>,
     context |-> 32768,
     description |-> "Largest context window for big thinking"],
    [id |-> <<"g","p","t","-","3",".","5","-","t","u","r","b","o">>,
     label |-> <<"3",".","5","-","T","u","r","b","o">>,
     context |-> 4097,
     description |-> "Fair speed and smarts"],
    [id |-> <<>>,
     label |-> <<"?",":">>,
     context |-> 4096,
     description |-> "Unknown, please let us know the ID"] >>

\* the table without its empty-prefix entry
knownBases_noFallback == <<
    [id |-> <<"g","p","t","-","4","-","3","2","k">>,
     label |-> <<"G","P","T","-","4","-","3","2">>,
     context |-> 32768,
     description |-> "Largest context window for big thinking"],
    [id |-> <<"g","p","t","-","4">>,
     label |-> <<"G","P","T","-","4">>,
     context |-> 8192,
     description |-> "Insightful, big thinker, slower, pricey"],
    [id |-> <<"g","p","t","-","3",".","5","-","t","u","r","b","o">>,
     label |-> <<"3",".","5","-","T","u","r","b","o">>,
     context |-> 4097,
     description |-> "Fair speed and smarts"] >>

knownBases == <<
    [id |-> <<"g","p","t","-","4","-","3","2","k">>,
     label |-> <<"G","P","T","-","4","-","3","2">>,
     context |-> 32768,
     description |-> "Largest context window for big thinking"],
    [id |-> <<"g","p","t","-","4">>,
     label |-> <<"G","P","T","-","4">>,
     context |-> 8192,
     description |-> "Insightful, big thinker, slower, pricey"],
    [id |-> <<"g","p","t","-","3",".","5","-","t","u","r","b","o">>,
     label |-> <<"3",".","5","-","T","u","r","b","o">>,
     context |-> 4097,
     description |-> "Fair speed and smarts"],
    [id |-> <<>>,
     label |-> <<"?",":">>,
     context |-> 4096,
     description |-> "Unknown, please let us know the ID"] >>

\* knownBases.find(base => id.startsWith(base.id)), scanning from entry i
RECURSIVE findFrom(_, _)
findFrom(i, id) ==
    IF i > Len(knownBases) THEN Undefined
    ELSE IF startsWith(id, knownBases[i].id) THEN knownBases[i]
    ELSE findFrom(i + 1, id)

find(id) == findFrom(1, id)

\* knownBases.find(...) || knownBases[knownBases.length - 1]
baseOf(id) == IF find(id) = Undefined THEN knownBases[Len(knownBases)] ELSE find(id)

\* model.id.slice(base.id.length).trim()
suffixOf(id) == trim(slice(id, Len(baseOf(id).id)))

\* the id built from the trimmed model id
compositeId_trimmed(src, model) == src.id \o <<"-">> \o trim(model.id)

\* `${source.id}-${model.id}`
compositeId(src, model) == src.id \o <<"-">> \o model.id

\* base.label + (suffix ? ` (${suffix.replaceAll('-', ' ').trim()})` : '')
labelOf(id) ==
    LET suffix == suffixOf(id)
    IN  baseOf(id).label \o
        (IF suffix /= <<>>
            THEN <<" ", "(">> \o trim(replaceAll(suffix, "-", <<" ">>)) \o <<")">>
            ELSE <<>>)

openAIModelToDLLM(model, src) ==
    LET base == baseOf(model.id)
        suffix == suffixOf(model.id)
    IN  [id |-> compositeId(src, model),
         label |-> labelOf(model.id),
         created |-> model.created,
         description |-> base.description,
         tags |-> <<"stream", "chat">>,
         contextTokens |-> base.context,
         hidden |-> (suffix /= <<>>),
         sId |-> src.id,
         _source |-> src,
         options |-> [llmRef |-> model.id,
                      llmTemperature |-> "0.5",
                      llmResponseTokens |-> MathRoundDiv(base.context, 8)]]

-----------------------------------------------------------------------------
(* Normalizer runs: models.map(model => openAIModelToDLLM(model, source)) *)

S_gpt4 == <<"g","p","t","-","4">>

S_gpt4_32k == <<"g","p","t","-","4","-","3","2","k">>

S_gpt35turbo == <<"g","p","t","-","3",".","5","-","t","u","r","b","o">>

S_gpt4_0314 == S_gpt4 \o <<"-","0","3","1","4">>

S_gpt4_32k_0314 == S_gpt4_32k \o <<"-","0","3","1","4">>

S_gpt35turbo_0301 == S_gpt35turbo \o <<"-","0","3","0","1">>

S_text_davinci_003 == <<"t","e","x","t","-","d","a","v","i","n","c","i","-","0","0","3">>

S_openai == <<"o","p","e","n","a","i">>

S_openai_2 == S_openai \o <<"-","2">>

\* the stems raw model ids are built from: the known prefixes, proper prefixes
\* of them, ids of unknown families, an id with leading white space
Stems == { <<>>, S_gpt4, S_gpt4_32k, S_gpt35turbo,
           <<"g","p","t","-","4","-","3","2">>, <<"g","p","t","-","3",".","5">>,
           S_gpt4_0314, S_gpt4_32k_0314, S_gpt35turbo_0301, S_text_davinci_003,
           <<" ">> \o S_gpt4, <<"2","-">> \o S_gpt4 }

TailChars == {"-", " ", "\t", "k"}

RECURSIVE TailsUpTo(_)
TailsUpTo(n) ==
    IF n = 0 THEN {<<>>}
    ELSE LET shorter == TailsUpTo(n - 1)
         IN  shorter \cup {Append(t, c) : t \in shorter, c \in TailChars}

\* the raw model ids a listing may return: any string is accepted
RawIds == {s \o t : s \in Stems, t \in TailsUpTo(MaxTail)}

SourceIds == {S_openai, S_openai_2}

Createds == {1686935002}

Descriptions == [id : RawIds, created : Createds]

Sources == [id : SourceIds]

\* ids of the two-source runs
FewIds == {S_gpt4, <<"2","-">> \o S_gpt4, S_gpt35turbo, S_gpt4_32k}

FewInputs == [model : [id : FewIds, created : Createds], source : Sources]

\* the i-th element of the map: one call of openAIModelToDLLM
NormalizeStep ==
    /\ Len(outputs) < Len(inputs)
    /\ LET in == inputs[Len(outputs) + 1]
       IN  outputs' = Append(outputs, openAIModelToDLLM(in.model, in.source))
    /\ UNCHANGED <<inputs, formVars>>

normDone == inputs /= <<>> /\ Len(outputs) = Len(inputs)

-----------------------------------------------------------------------------
(* The settings form and its listModels query *)

OaiKeys == {"", "xx", "sk-A"}

OaiHosts == {""}

OaiOrgs == {"", "org-1"}

HeliKeys == {""}

\* the inputs of the listModels query: { oaiKey, oaiHost, oaiOrg, heliKey }
QueryInputs == [oaiKey : OaiKeys, oaiHost : OaiHosts, oaiOrg : OaiOrgs, heliKey : HeliKeys]

SetupFields == {"oaiKey", "oaiHost", "oaiOrg", "heliKey"}

FieldValues(f) ==
    CASE f = "oaiKey" -> OaiKeys
      [] f = "oaiHost" -> OaiHosts
      [] f = "oaiOrg" -> OaiOrgs
      [] f = "heliKey" -> HeliKeys

\* normalizeSetup(undefined)
defaultSetup == [oaiKey |-> "", oaiHost |-> "", oaiOrg |-> "", heliKey |-> ""]

\* the responses a listing may give
ModelLists == { <<>>,
                <<[id |-> S_gpt4, created |-> 1686935002]>>,
                <<[id |-> S_gpt4, created |-> 1686935002],
                  [id |-> S_gpt4_0314, created |-> 1686935002]>> }

isValidOpenAIApiKey(k) == k \in {"sk-A"}

\* !!sourceLLMs.length
hasModelsOf(src, ls) == src /= Null /\ ls /= {}

\* a server-side key making up for an invalid user key
shallFetchSucceedOf_serverKeyWins(st, serverKey) ==
    isValidOpenAIApiKey(st.oaiKey) \/ serverKey

\* oaiKey ? keyValid : hasServerKeyOpenAI
shallFetchSucceedOf(st, serverKey) ==
    IF st.oaiKey /= "" THEN isValidOpenAIApiKey(st.oaiKey) ELSE serverKey

\* the query option enabled: !hasModels && shallFetchSucceed
enabledOf(st, src, ls, serverKey) ==
    ~hasModelsOf(src, ls) /\ shallFetchSucceedOf(st, serverKey)

hasModels == hasModelsOf(source, llms)

keyValid == isValidOpenAIApiKey(setup.oaiKey)

keyError == setup.oaiKey /= "" /\ ~keyValid

shallFetchSucceed == shallFetchSucceedOf(setup, hasServerKeyOpenAI)

enabled == enabledOf(setup, source, llms, hasServerKeyOpenAI)

isFetching == queries[setup].inflight > 0

isError == queries[setup].status = "error"

\* the Models button left enabled while a fetch is in flight
buttonDisabled_ignoresFetching == ~shallFetchSucceed

\* the Models button: disabled={!shallFetchSucceed || isFetching}
buttonDisabled == ~shallFetchSucceed \/ isFetching

idleQuery == [status |-> "loading", hasData |-> FALSE, inflight |-> 0]

\* a fetch of input k begins; one already in flight is shared, not repeated
startFetch(q, k) ==
    IF q[k].inflight > 0 THEN q
    ELSE [q EXCEPT ![k] = [status |-> IF @.hasData THEN @.status ELSE "loading",
                           hasData |-> @.hasData,
                           inflight |-> 1]]

\* refetch(): a fetch in flight that has no data yet is shared; otherwise a new
\* request goes out, beside the cancelled one when one is still on the wire
refetch(q, k) ==
    IF q[k].inflight > 0 /\ ~q[k].hasData THEN q
    ELSE [q EXCEPT ![k] = [status |-> IF @.hasData THEN @.status ELSE "loading",
                           hasData |-> @.hasData,
                           inflight |-> @.inflight + 1]]

\* the observer after a render with new options: it fetches when the query is
\* enabled, its input changed or it was disabled before, and the query is stale
\* (staleTime: Infinity: stale only while it has no data)
afterRender(q, prevKey, prevEnabled, key, nowEnabled) ==
    IF nowEnabled /\ (key /= prevKey \/ ~prevEnabled) /\ ~q[key].hasData
        THEN startFetch(q, key)
        ELSE q

\* an onSuccess that registers only the records that are not hidden
onSuccessLLMs_visibleOnly(src, models) ==
    IF src /= Null
        THEN SelectSeq([i \in 1..Len(models) |-> openAIModelToDLLM(models[i], src)],
                       LAMBDA l : ~l.hidden)
        ELSE <<>>

\* the argument onSuccess passes to addLLMs
onSuccessLLMs(src, models) ==
    IF src /= Null
        THEN [i \in 1..Len(models) |-> openAIModelToDLLM(models[i], src)]
        ELSE <<>>

\* useModelsStore addLLMs: merge by id
addLLMs(ls, new) ==
    {l \in ls : \A i \in 1..Len(new) : new[i].id /= l.id} \cup {new[i] : i \in 1..Len(new)}

Mount ==
    /\ ~mounted
    /\ mounted' = TRUE
    /\ queries' = IF enabled THEN startFetch(queries, setup) ELSE queries
    /\ UNCHANGED <<hasServerKeyOpenAI, setup, source, llms, delivered, addArg, normVars>>

Unmount ==
    /\ mounted
    /\ mounted' = FALSE
    /\ UNCHANGED <<hasServerKeyOpenAI, setup, source, llms, queries, delivered, addArg, normVars>>

UpdateSetup(f, v) ==
    /\ mounted
    /\ source /= Null
    /\ setup' = [setup EXCEPT ![f] = v]
    /\ queries' = afterRender(queries, setup, enabled, setup',
                              enabledOf(setup', source, llms, hasServerKeyOpenAI))
    /\ UNCHANGED <<hasServerKeyOpenAI, source, llms, mounted, delivered, addArg, normVars>>

Refetch ==
    /\ mounted
    /\ ~buttonDisabled
    /\ queries[setup].inflight < MaxInFlight
    /\ queries' = refetch(queries, setup)
    /\ UNCHANGED <<hasServerKeyOpenAI, setup, source, llms, mounted, delivered, addArg, normVars>>

FetchSuccess(k, models) ==
    /\ queries[k].inflight > 0
    /\ queries' = [queries EXCEPT ![k] = [status |-> "success", hasData |-> TRUE,
                                          inflight |-> @.inflight - 1]]
    /\ IF mounted /\ k = setup
          THEN /\ delivered' = [called |-> TRUE, models |-> models]
               /\ addArg' = [called |-> TRUE, llms |-> onSuccessLLMs(source, models)]
               /\ llms' = addLLMs(llms, onSuccessLLMs(source, models))
          ELSE UNCHANGED <<delivered, addArg, llms>>
    /\ UNCHANGED <<hasServerKeyOpenAI, setup, source, mounted, normVars>>

FetchError(k) ==
    /\ queries[k].inflight > 0
    /\ queries' = [queries EXCEPT ![k] = [status |-> "error", hasData |-> @.hasData,
                                          inflight |-> @.inflight - 1]]
    /\ UNCHANGED <<hasServerKeyOpenAI, setup, source, llms, mounted, delivered, addArg, normVars>>

RemoveSource ==
    /\ source /= Null
    /\ source' = Null
    /\ llms' = {}
    /\ setup' = defaultSetup
    /\ queries' = IF mounted
                    THEN afterRender(queries, setup, enabled, defaultSetup,
                                     enabledOf(defaultSetup, Null, {}, hasServerKeyOpenAI))
                    ELSE queries
    /\ UNCHANGED <<hasServerKeyOpenAI, mounted, delivered, addArg, normVars>>

-----------------------------------------------------------------------------
(* Specifications *)

FormStart ==
    /\ setup = defaultSetup
    /\ source = [id |-> S_openai]
    /\ llms = {}
    /\ mounted = FALSE
    /\ queries = [k \in QueryInputs |-> idleQuery]
    /\ delivered = [called |-> FALSE, models |-> <<>>]
    /\ addArg = [called |-> FALSE, llms |-> <<>>]

Init ==
    /\ hasServerKeyOpenAI \in BOOLEAN
    /\ FormStart
    /\ inputs = <<>>
    /\ outputs = <<>>

Next ==
    \/ Mount
    \/ Unmount
    \/ \E f \in SetupFields : \E v \in FieldValues(f) : UpdateSetup(f, v)
    \/ Refetch
    \/ \E k \in QueryInputs : \E models \in ModelLists : FetchSuccess(k, models)
    \/ \E k \in QueryInputs : FetchError(k)
    \/ RemoveSource

Spec == Init /\ [][Next]_vars

\* one call of openAIModelToDLLM on any descriptor and source
InitNorm ==
    /\ hasServerKeyOpenAI = FALSE
    /\ FormStart
    /\ inputs \in {<<[model |-> m, source |-> s]>> : m \in Descriptions, s \in Sources}
    /\ outputs = <<>>

NextNorm == NormalizeStep

SpecNorm == InitNorm /\ [][NextNorm]_vars

\* two calls, on two different (source, model) pairs
InitIds ==
    /\ hasServerKeyOpenAI = FALSE
    /\ FormStart
    /\ inputs \in {<<a, b>> : a \in FewInputs, b \in FewInputs}
    /\ inputs[1] /= inputs[2]
    /\ outputs = <<>>

NextIds == NormalizeStep

SpecIds == InitIds /\ [][NextIds]_vars

-----------------------------------------------------------------------------
(* Properties of openAIModelToDLLM, stated on the finished runs of SpecNorm *)
(* by positions in the raw id, not by the string operations of the code     *)

\* p is a literal prefix of s
IsPrefix(p, s) == Len(p) <= Len(s) /\ \A i \in 1..Len(p) : s[i] = p[i]

\* entry i is the first entry of the table whose id is a prefix of id
FirstMatch(i, id) ==
    /\ i \in 1..Len(knownBases)
    /\ IsPrefix(knownBases[i].id, id)
    /\ \A j \in 1..(i - 1) : ~IsPrefix(knownBases[j].id, id)

SetMin(S) == CHOOSE x \in S : \A y \in S : x <= y

SetMax(S) == CHOOSE x \in S : \A y \in S : y <= x

\* the positions lo..hi of id whose character is not in skip
Kept(id, lo, hi, skip) == {p \in lo..hi : id[p] \notin skip}

\* id[lo..hi] with every hyphen turned into a space
HyphenToSpace(id, lo, hi) ==
    [p \in 1..(hi - lo + 1) |-> IF id[lo + p - 1] = "-" THEN " " ELSE id[lo + p - 1]]

\* the label of raw id `id` under entry i: the base label alone when nothing
\* but white space follows the prefix, else the base label, " (", the text
\* between the first and the last character that is neither white space nor a
\* hyphen (hyphens as spaces), ")"
ExpectedLabel(i, id) ==
    LET lo == Len(knownBases[i].id) + 1
        hi == Len(id)
    IN  IF Kept(id, lo, hi, WhiteSpace) = {} THEN knownBases[i].label
        ELSE LET core == Kept(id, lo, hi, WhiteSpace \cup {"-"})
             IN  knownBases[i].label \o <<" ", "(">> \o
                 (IF core = {} THEN <<>>
                  ELSE HyphenToSpace(id, SetMin(core), SetMax(core))) \o <<")">>

rawId == inputs[1].model.id

rec == outputs[1]

DLLMFields == {"id", "label", "created", "description", "tags", "contextTokens",
               "hidden", "sId", "_source", "options"}

\* C1: the base used is the first entry of knownBases, in table order, whose id
\* is a literal prefix of the raw id; the fallback (the last entry) is used
\* exactly when no earlier entry matches. Ids starting with 'gpt-4-32k' get the
\* 'GPT-4-32' entry, 'gpt-3.5-turbo-0301' gets context 4097, and
\* 'text-davinci-003' gets the fallback entry.
C1_FirstMatchWins ==
    normDone =>
        /\ \E i \in 1..Len(knownBases) :
              /\ FirstMatch(i, rawId)
              /\ rec.description = knownBases[i].description
              /\ rec.contextTokens = knownBases[i].context
              /\ IsPrefix(knownBases[i].label, rec.label)
        /\ (rec.description = "Unknown, please let us know the ID")
              <=> (\A j \in 1..(Len(knownBases) - 1) : ~IsPrefix(knownBases[j].id, rawId))
        /\ IsPrefix(S_gpt4_32k, rawId) =>
              /\ rec.description = "Largest context window for big thinking"
              /\ rec.contextTokens = 32768
              /\ IsPrefix(<<"G","P","T","-","4","-","3","2">>, rec.label)
        /\ rawId = S_gpt35turbo_0301 => rec.contextTokens = 4097
        /\ rawId = S_text_davinci_003 =>
              /\ rec.description = "Unknown, please let us know the ID"
              /\ rec.contextTokens = 4096
              /\ IsPrefix(<<"?",":">>, rec.label)
              /\ rec.hidden

W_C1 ==
    /\ normDone
    /\ rawId = S_gpt4_32k_0314
    /\ rec.description = "Largest context window for big thinking"

\* C2 as stated: hidden is true exactly when any text at all follows the
\* matched prefix in the raw id.
CE_C2_AnyTrailingText ==
    normDone =>
        \A i \in 1..Len(knownBases) :
            FirstMatch(i, rawId) => (rec.hidden <=> Len(rawId) > Len(knownBases[i].id))

\* C2 (amended): hidden is true exactly when the text after the matched prefix
\* holds a character that is not white space; an id equal to a known prefix is
\* not hidden, and neither is one followed by white space only.
C2_HiddenIffTrimmedSuffix ==
    normDone =>
        /\ \A i \in 1..Len(knownBases) :
              FirstMatch(i, rawId) =>
                 (rec.hidden <=>
                    Kept(rawId, Len(knownBases[i].id) + 1, Len(rawId), WhiteSpace) /= {})
        /\ rawId \in {S_gpt4_32k, S_gpt4, S_gpt35turbo} => ~rec.hidden
        /\ rawId = S_gpt4_0314 => rec.hidden

W_C2 ==
    /\ normDone
    /\ rawId = S_gpt4 \o <<" ">>
    /\ ~rec.hidden

\* C4: the label is the matched base's label alone when the trimmed suffix is
\* empty, else the base label, a space and, in parentheses, the suffix with
\* every hyphen replaced by a space and trimmed again.
C4_Label ==
    normDone =>
        /\ \A i \in 1..Len(knownBases) :
              FirstMatch(i, rawId) => rec.label = ExpectedLabel(i, rawId)
        /\ rawId = S_gpt4_0314 =>
              rec.label = <<"G","P","T","-","4"," ","(","0","3","1","4",")">>
        /\ rawId = S_gpt4_32k => rec.label = <<"G","P","T","-","4","-","3","2">>

W_C4 ==
    /\ normDone
    /\ rawId = S_gpt4_0314 \o <<"-","k">>
    /\ rec.label = <<"G","P","T","-","4"," ","(","0","3","1","4"," ","k",")">>

\* C5: the prefix scan finds an entry for every raw id, and the call returns
\* exactly one complete record.
C5_Total ==
    /\ inputs /= <<>> => find(rawId) \in {knownBases[i] : i \in 1..Len(knownBases)}
    /\ normDone =>
          /\ Len(outputs) = 1
          /\ DOMAIN rec = DLLMFields
          /\ DOMAIN rec.options = {"llmRef", "llmTemperature", "llmResponseTokens"}
          /\ rec.options.llmRef = rawId

W_C5 ==
    /\ normDone
    /\ rawId = S_text_davinci_003
    /\ DOMAIN rec = DLLMFields

\* C6: the record id is source.id, then '-', then the raw model id unmodified.
C6_CompositeId ==
    normDone =>
        LET sid == inputs[1].source.id
        IN  /\ Len(rec.id) = Len(sid) + 1 + Len(rawId)
            /\ \A p \in 1..Len(sid) : rec.id[p] = sid[p]
            /\ rec.id[Len(sid) + 1] = "-"
            /\ \A p \in 1..Len(rawId) : rec.id[Len(sid) + 1 + p] = rawId[p]

W_C6 ==
    /\ normDone
    /\ rawId = S_gpt4 \o <<" ">>
    /\ rec.id = S_openai \o <<"-">> \o S_gpt4 \o <<" ">>

\* C7: llmResponseTokens is the matched base's context divided by 8 and rounded
\* to the nearest integer, and contextTokens is the matched base's context.
C7_ResponseTokens ==
    normDone =>
        LET c == rec.contextTokens
            t == rec.options.llmResponseTokens
        IN  /\ \A i \in 1..Len(knownBases) :
                  FirstMatch(i, rawId) => c = knownBases[i].context
            /\ c \in {32768, 8192, 4097, 4096}
            /\ 8 * t <= c + 4
            /\ c + 4 < 8 * t + 8
            /\ c = 32768 => t = 4096
            /\ c = 8192 => t = 1024
            /\ c = 4097 => t = 512
            /\ c = 4096 => t = 512

W_C7 ==
    /\ normDone
    /\ rawId = S_gpt35turbo_0301
    /\ rec.contextTokens = 4097
    /\ rec.options.llmResponseTokens = 512

\* C3 as stated: two different (source id, raw model id) pairs never get the
\* same record id.
CE_C3_UniqueIds ==
    (Len(inputs) = 2 /\ Len(outputs) = 2) =>
        (<<inputs[1].source.id, inputs[1].model.id>>
            /= <<inputs[2].source.id, inputs[2].model.id>>
         => outputs[1].id /= outputs[2].id)

-----------------------------------------------------------------------------
(* Properties of the settings form, stated on Spec *)

RECURSIVE SumInFlight(_)
SumInFlight(K) ==
    IF K = {} THEN 0
    ELSE LET k == CHOOSE x \in K : TRUE
         IN  queries[k].inflight + SumInFlight(K \ {k})

\* a request of input k goes out in this step
Starts(k) == queries'[k].inflight > queries[k].inflight

\* this step is a success of the observed query, handing models to onSuccess
ObservedSuccess(models) == mounted /\ FetchSuccess(setup, models)

C9_RegisterOnlyOnSuccess ==
    [][/\ (llms' \ llms /= {}) =>
            \E models \in ModelLists : ObservedSuccess(models) /\ models /= <<>>
       /\ \A k \in QueryInputs :
            FetchError(k) => /\ llms' = llms
                             /\ addArg' = addArg
                             /\ queries'[k].status = "error"
                             /\ (k = setup => isError')
       /\ \A models \in ModelLists :
            ObservedSuccess(models) =>
               /\ addArg'.called
               /\ Len(addArg'.llms) = (IF source = Null THEN 0 ELSE Len(models))
               /\ \A i \in 1..Len(addArg'.llms) :
                     /\ addArg'.llms[i].options.llmRef = models[i].id
                     /\ addArg'.llms[i].sId = source.id
                     /\ addArg'.llms[i] \in llms'
       /\ (addArg' /= addArg) => \E models \in ModelLists : ObservedSuccess(models)]_vars

W_C9 ==
    /\ addArg.called
    /\ Len(addArg.llms) = 2
    /\ Cardinality(llms) = 2
    /\ \E k \in QueryInputs : queries[k].status = "error"

\* C10: a fetch goes out only for credentials that are plausibly valid: a
\* non-empty user key that passes isValidOpenAIApiKey, or an empty user key
\* with a server-side key. While the key error is shown the query is disabled
\* and so is the Models button, with or without a server-side key.
C10_FetchOnlyWhenPlausible ==
    /\ \A k \in QueryInputs :
          (queries[k].inflight > 0 \/ queries[k].status /= "loading") =>
              /\ k.oaiKey /= "" => isValidOpenAIApiKey(k.oaiKey)
              /\ k.oaiKey = "" => hasServerKeyOpenAI
    /\ keyError => (buttonDisabled /\ ~enabled /\ ~isFetching)

W_C10 ==
    /\ mounted
    /\ keyError
    /\ hasServerKeyOpenAI
    /\ ~hasModels
    /\ \E k \in QueryInputs : queries[k].status = "success"

====
